---- MODULE Spec2Model ----
(***************************************************************************)
(* Cafe Planner: the board state (App.tsx), the object-store wrapper       *)
(* (utils/db), the import/export utilities (utils/export.ts) and the data  *)
(* manager's import flow (DataManagerModal.tsx).                           *)
(*                                                                         *)
(* Time is counted in minutes since the epoch (the code counts             *)
(* milliseconds; every quantity the code derives is a whole number of      *)
(* minutes times 60 * 1000).  undefined is modelled by Undefined; a JSON   *)
(* field that is absent reads as undefined in the code, so both are the    *)
(* same value here.                                                        *)
(***************************************************************************)
EXTENDS Integers, Sequences, FiniteSets, TLC

VARIABLES
    now,          \* Date.now(), minutes
    tz,           \* Date.prototype.getTimezoneOffset() of the browser, minutes
    phase,        \* "loading" while initData has not run, then "ready"
    categories,   \* App state: Category[]
    tasks,        \* App state: Task[]
    quickNotes,   \* App state: Note[]
    activeId,     \* App state: id of the task being dragged, or Null
    store,        \* IndexedDB: collection name -> (id -> record)
    inflight,     \* store requests issued and not yet completed, oldest first
    faults,       \* number of store requests that have failed so far
    importError,  \* DataManagerModal state: lines of the error shown
    importSuccess,\* DataManagerModal state
    selectedCatId,\* TaskModal state while the dialog is open, else Null
    renderedAt,   \* time of the last render (the board shown was computed then)
    lastOp,       \* history: the handler that ran last and its argument
    vData,        \* input of the last validateImportData call
    vResult       \* its result

vars == <<now, tz, phase, categories, tasks, quickNotes, activeId, store,
          inflight, faults, importError, importSuccess, selectedCatId,
          renderedAt, lastOp, vData, vResult>>

-----------------------------------------------------------------------------
(* Bounds of the model *)

\* clock granularity: the clock advances in steps of TickHours hours
TickHours == 8
\* number of clock steps explored
MaxTicks == 2
\* tasks, notes and categories held in memory
MaxTasks == 2
MaxNotes == 2
MaxCategories == 3
\* store requests in flight
MaxInflight == 2
\* store requests that fail in one run
MaxFaults == 1

-----------------------------------------------------------------------------
(* Values *)

Null == "null"
Undefined == -1

MinutesPerDay == 24 * 60
StartTime == 2 * MinutesPerDay
ClockStep == TickHours * 60
MaxTime == StartTime + MaxTicks * ClockStep

Lanes == <<"morning", "afternoon", "evening">>
LaneSet == {Lanes[i] : i \in 1..Len(Lanes)}

THEMES == <<"amber", "rose", "sky", "emerald", "violet", "orange">>

DEFAULT_CATEGORIES ==
    << [id |-> "cat1", label |-> "L1", icon |-> "i1", theme |-> "amber"],
       [id |-> "cat2", label |-> "L2", icon |-> "i2", theme |-> "rose"] >>

INITIAL_TASKS == << >>

\* JavaScript truthiness of an optional number
Truthy(x) == x # Undefined /\ x # 0

Range(s) == {s[i] : i \in 1..Len(s)}

Filter(s, keep(_)) == SelectSeq(s, keep)

\* Array.prototype.findIndex, 0-based, -1 when absent
FindIndex(s, test(_)) ==
    IF \E i \in 1..Len(s) : test(s[i])
    THEN (CHOOSE i \in 1..Len(s) :
              test(s[i]) /\ \A j \in 1..(i - 1) : ~test(s[j])) - 1
    ELSE -1

\* Array.prototype.find reduced to what the callers use: is there a match,
\* and the first match
Has(s, test(_)) == \E i \in 1..Len(s) : test(s[i])
Find(s, test(_)) == s[FindIndex(s, test) + 1]

Ids(s) == {s[i].id : i \in 1..Len(s)}

-----------------------------------------------------------------------------
(* Dates *)

\* Date.prototype.setHours(0, 0, 0, 0): local midnight of the local day of
\* the instant t, in a browser whose getTimezoneOffset() is off
SetHoursZero(t, off) ==
    LET wall == t - off
    IN  (wall - (wall % MinutesPerDay)) + off

getBeijingTodayStart(t, off) ==
    LET userOffsetMinutes == off
        beijingOffsetMinutes == (-8) * 60
        diffMinutes == beijingOffsetMinutes - userOffsetMinutes
        beijingTime == t + diffMinutes
    IN  SetHoursZero(beijingTime, off)

shouldHideTask(task, t, off) ==
    IF task.status # "completed" THEN FALSE
    ELSE IF ~Truthy(task.completedAt) THEN FALSE
    ELSE task.completedAt < getBeijingTodayStart(t, off)

getTasksByBlock(ts, block, t, off) ==
    LET Keep(task) == task.timeBlock = block /\ ~shouldHideTask(task, t, off)
    IN  Filter(ts, Keep)

visibleTasks(ts, t, off) ==
    LET Keep(task) == ~shouldHideTask(task, t, off)
    IN  Filter(ts, Keep)

\* Numbers that need not be whole are kept as fractions in lowest terms
RECURSIVE GCD(_, _)
GCD(a, b) == IF b = 0 THEN a ELSE GCD(b, a % b)

Fraction(n, d) ==
    LET g == GCD(n, d) IN [num |-> n \div g, den |-> d \div g]

FractionTimes(x, k) == Fraction(x.num * k, x.den)

\* a variant that counts the hidden tasks as well
calculateProgressOfAll(ts, t, off) ==
    LET Completed(task) == task.status = "completed"
    IN  IF Len(ts) = 0 THEN Fraction(0, 1)
        ELSE FractionTimes(Fraction(Len(Filter(ts, Completed)), Len(ts)), 100)

\* calculateProgress: (completed / visibleTasks.length) * 100
calculateProgress(ts, t, off) ==
    LET Completed(task) == task.status = "completed"
        visible == visibleTasks(ts, t, off)
        completed == Len(Filter(visible, Completed))
    IN  IF Len(visible) = 0 THEN Fraction(0, 1)
        ELSE FractionTimes(Fraction(completed, Len(visible)), 100)

-----------------------------------------------------------------------------
(* The object store (utils/db) *)

Collections == {"tasks", "categories", "notes"}

EmptyStore == [c \in Collections |-> << >>]

\* the clock values of the model, ascending
Times == [k \in 1..(MaxTicks + 1) |-> StartTime + (k - 1) * ClockStep]

\* Keys in IndexedDB key order (strings compare by code unit: the decimal
\* timestamps of the model all have the same number of digits and precede
\* the ids that start with a letter)
KeyOrder ==
    [k \in 1..Len(Times) |-> ToString(Times[k])]
        \o <<"cat1", "cat2", "imp1", "imp2", "imp3", "imp4", "old1">>

KeyRank(id) == CHOOSE k \in 1..Len(KeyOrder) : KeyOrder[k] = id

\* store.put(item): insert or replace the record keyed by item.id
StorePut(f, item) ==
    [k \in (DOMAIN f) \cup {item.id} |-> IF k = item.id THEN item ELSE f[k]]

\* a variant that clears the whole object store
StoreClear(f, id) == [k \in {} |-> f[k]]

\* store.delete(id)
StoreDelete(f, id) == [k \in (DOMAIN f) \ {id} |-> f[k]]

RECURSIVE StorePutAll(_, _)
StorePutAll(f, items) ==
    IF items = << >> THEN f
    ELSE StorePutAll(StorePut(f, Head(items)), Tail(items))

\* store.getAll(): the records in key order
RECURSIVE InKeyOrder(_, _)
InKeyOrder(f, keys) ==
    IF keys = {} THEN << >>
    ELSE LET k == CHOOSE x \in keys : \A y \in keys : KeyRank(x) <= KeyRank(y)
         IN  <<f[k]>> \o InKeyOrder(f, keys \ {k})

DBgetAll(st, coll) == InKeyOrder(st[coll], DOMAIN st[coll])

\* Requests: DB.put, DB.bulkPut, DB.delete on one collection
PutReq(coll, item) ==
    [op |-> "put", coll |-> coll, items |-> <<item>>, id |-> Null]
BulkPutReq(coll, items) ==
    [op |-> "bulkPut", coll |-> coll, items |-> items, id |-> Null]
DeleteReq(coll, id) ==
    [op |-> "delete", coll |-> coll, items |-> << >>, id |-> id]

\* the effect of a request that succeeds
ApplyReq(st, r) ==
    IF r.op = "delete"
    THEN [st EXCEPT ![r.coll] = StoreDelete(@, r.id)]
    ELSE [st EXCEPT ![r.coll] = StorePutAll(@, r.items)]

RECURSIVE ApplyAll(_, _)
ApplyAll(st, rs) ==
    IF rs = << >> THEN st ELSE ApplyAll(ApplyReq(st, Head(rs)), Tail(rs))

-----------------------------------------------------------------------------
(* State updaters of App.tsx (the functions passed to setTasks) *)

MapSeq(s, f(_)) == [i \in 1..Len(s) |-> f(s[i])]

\* a variant that keeps the completion time of a task made active again
ToggledKeepsStamp(t, at) ==
    LET newStatus == IF t.status = "active" THEN "completed" ELSE "active"
    IN  [t EXCEPT !.status = newStatus,
                  !.completedAt = IF newStatus = "completed" THEN at
                                  ELSE t.completedAt]

\* handleToggleStatus: the record a toggled task becomes
Toggled(t, at) ==
    LET newStatus == IF t.status = "active" THEN "completed" ELSE "active"
    IN  [t EXCEPT !.status = newStatus,
                  !.completedAt = IF newStatus = "completed" THEN at
                                  ELSE Undefined]

ToggleTasks(prev, id, at) ==
    LET F(t) == IF t.id = id THEN Toggled(t, at) ELSE t
    IN  MapSeq(prev, F)

\* a variant in which an edit always stamps createdAt anew
UpdatedRestamped(t, title, categoryId, timeBlock, at) ==
    [t EXCEPT !.title = title, !.categoryId = categoryId,
              !.timeBlock = timeBlock, !.createdAt = at]

\* a variant in which an edit makes the task active again
UpdatedReactivated(t, title, categoryId, timeBlock, at) ==
    [t EXCEPT !.title = title, !.categoryId = categoryId,
              !.timeBlock = timeBlock, !.status = "active",
              !.createdAt = IF Truthy(t.createdAt) THEN t.createdAt ELSE at]

\* handleUpdateTask
Updated(t, title, categoryId, timeBlock, at) ==
    [t EXCEPT !.title = title, !.categoryId = categoryId,
              !.timeBlock = timeBlock,
              !.createdAt = IF Truthy(t.createdAt) THEN t.createdAt ELSE at]

UpdateTasks(prev, id, title, categoryId, timeBlock, at) ==
    LET F(t) == IF t.id = id
                THEN Updated(t, title, categoryId, timeBlock, at) ELSE t
    IN  MapSeq(prev, F)

\* a variant that also moves the dragged task to the end of the list
MoveToBlockLast(prev, id, block) ==
    LET Dragged(t) == t.id = id
        Others(t) == t.id # id
        F(t) == [t EXCEPT !.timeBlock = block]
    IN  Filter(prev, Others) \o MapSeq(Filter(prev, Dragged), F)

\* handleDragOver: both branches map the dragged task to the target lane
MoveToBlock(prev, id, block) ==
    LET F(t) == IF t.id = id THEN [t EXCEPT !.timeBlock = block] ELSE t
    IN  MapSeq(prev, F)

\* the DB.tasks.put calls an updater makes: one for each task whose id matches
PutsFor(next, id) ==
    LET Match(t) == t.id = id
        P(t) == PutReq("tasks", t)
    IN  MapSeq(Filter(next, Match), P)

\* arrayMove of @dnd-kit/sortable; from and to are 0-based and may be -1
\*   newArray.splice(to < 0 ? newArray.length + to : to, 0,
\*                   newArray.splice(from, 1)[0])
SpliceStart(len, i) ==
    IF i < 0 THEN (IF len + i < 0 THEN 0 ELSE len + i)
    ELSE IF i > len THEN len ELSE i

arrayMove(array, from, to) ==
    LET n == Len(array)
        f == SpliceStart(n, from)
        removed == IF f < n THEN <<array[f + 1]>> ELSE << >>
        rest == IF f < n
                THEN SubSeq(array, 1, f) \o SubSeq(array, f + 2, n)
                ELSE array
        \* the insertion index is computed before the inner splice runs, so
        \* newArray.length is still n there; the outer splice then clamps it
        m == Len(rest)
        at == SpliceStart(m, IF to < 0 THEN n + to ELSE to)
    IN  IF removed = << >>
        THEN rest  \* splice(...)[0] is undefined; not reached: from < n
        ELSE SubSeq(rest, 1, at) \o removed \o SubSeq(rest, at + 1, m)

\* a variant that rebuilds the list from the lanes in board order, and so
\* regroups the tasks of the other lanes
ReorderTasksByLane(items, block, oldIndex, newIndex) ==
    LET InBlock(t) == t.timeBlock = block
        Rest(k) ==
            LET Keep(t) == t.timeBlock = Lanes[k] /\ t.timeBlock # block
            IN  Filter(items, Keep)
    IN  Rest(3) \o Rest(2) \o Rest(1)
            \o arrayMove(Filter(items, InBlock), oldIndex, newIndex)

\* a variant that writes the new position into an order field of the tasks
\* of the lane
ReorderTasksWithOrder(items, block, oldIndex, newIndex) ==
    LET InBlock(t) == t.timeBlock = block
        NotInBlock(t) == t.timeBlock # block
        moved == arrayMove(Filter(items, InBlock), oldIndex, newIndex)
        Ordered(i) ==
            [f \in (DOMAIN moved[i]) \cup {"order"} |->
                IF f = "order" THEN i ELSE moved[i][f]]
    IN  Filter(items, NotInBlock) \o [i \in 1..Len(moved) |-> Ordered(i)]

\* handleDragEnd: the reorder passed to setTasks
ReorderTasks(items, block, oldIndex, newIndex) ==
    LET InBlock(t) == t.timeBlock = block
        NotInBlock(t) == t.timeBlock # block
        currentBlockItems == Filter(items, InBlock)
        otherItems == Filter(items, NotInBlock)
        reorderedBlockItems == arrayMove(currentBlockItems, oldIndex, newIndex)
    IN  otherItems \o reorderedBlockItems

-----------------------------------------------------------------------------
(* Export and import (utils/export.ts) *)

\* the optional numeric fields of a Task
OptionalFields == {"completedAt", "createdAt"}

Get(obj, f) == IF f \in DOMAIN obj THEN obj[f] ELSE Undefined

\* JSON.stringify followed by JSON.parse of one record: a property whose
\* value is undefined is not written, and so is absent from the parsed object
JsonObject(rec) ==
    [f \in {g \in DOMAIN rec : g \notin OptionalFields \/ rec[g] # Undefined}
        |-> rec[f]]

JsonArray(s) == MapSeq(s, JsonObject)

ArrayField(items) == [kind |-> "array", items |-> items]
MissingField == [kind |-> "missing", items |-> << >>]
OtherField == [kind |-> "other", items |-> << >>]

\* !x || !Array.isArray(x)
NotArray(field) == field.kind # "array"

\* exportDataAsJSON: the parsed content of the file it writes (version and
\* exportedAt are not read by the import)
exportDataAsJSON(cats, ts, ns) ==
    [json |-> TRUE,
     categories |-> ArrayField(JsonArray(cats)),
     tasks |-> ArrayField(JsonArray(ts)),
     notes |-> ArrayField(JsonArray(ns))]

Msg(text, index, categoryId) ==
    [text |-> text, index |-> index, categoryId |-> categoryId]

\* importDataFromJSON: resolves with the data or rejects with one Error
importDataFromJSON(file) ==
    IF ~file.json
    THEN [ok |-> FALSE, error |-> "SyntaxError"]
    ELSE IF NotArray(file.categories)
    THEN [ok |-> FALSE,
          error |-> "Invalid data format: missing or invalid categories"]
    ELSE IF NotArray(file.tasks)
    THEN [ok |-> FALSE,
          error |-> "Invalid data format: missing or invalid tasks"]
    ELSE IF NotArray(file.notes)
    THEN [ok |-> FALSE,
          error |-> "Invalid data format: missing or invalid notes"]
    ELSE [ok |-> TRUE, error |-> Null]

\* a variant that reports the forEach index as it is, counted from 0
RECURSIVE TaskErrorsFromZero(_, _, _)
TaskErrorsFromZero(ts, validCategoryIds, index) ==
    IF ts = << >> THEN << >>
    ELSE (IF Head(ts).categoryId \notin validCategoryIds
          THEN <<Msg("Task references non-existent category",
                     index, Head(ts).categoryId)>>
          ELSE << >>)
         \o TaskErrorsFromZero(Tail(ts), validCategoryIds, index + 1)

\* the errors.push calls of the forEach over data.tasks
RECURSIVE TaskErrors(_, _, _)
TaskErrors(ts, validCategoryIds, index) ==
    IF ts = << >> THEN << >>
    ELSE (IF Head(ts).categoryId \notin validCategoryIds
          THEN <<Msg("Task references non-existent category",
                     index + 1, Head(ts).categoryId)>>
          ELSE << >>)
         \o TaskErrors(Tail(ts), validCategoryIds, index + 1)

\* validateImportData; threw: data.categories.map or data.tasks.forEach is
\* not a function (a truthy value that is no array)
validateImportData(data) ==
    LET structural ==
            (IF NotArray(data.categories)
             THEN <<Msg("Missing or invalid categories", 0, Null)>> ELSE << >>)
         \o (IF NotArray(data.tasks)
             THEN <<Msg("Missing or invalid tasks", 0, Null)>> ELSE << >>)
         \o (IF NotArray(data.notes)
             THEN <<Msg("Missing or invalid notes", 0, Null)>> ELSE << >>)
        bothTruthy == data.tasks.kind # "missing"
                        /\ data.categories.kind # "missing"
        threw == bothTruthy
                   /\ (NotArray(data.categories) \/ NotArray(data.tasks))
        errors ==
            IF bothTruthy /\ ~threw
            THEN structural \o
                 TaskErrors(data.tasks.items, Ids(data.categories.items), 0)
            ELSE structural
    IN  [threw |-> threw, valid |-> ~threw /\ errors = << >>,
         errors |-> IF threw THEN << >> ELSE errors]

\* Array.prototype.sort((a, b) => b.createdAt - a.createdAt): stable,
\* newest first
RECURSIVE InsertNote(_, _)
InsertNote(sorted, n) ==
    IF sorted = << >> THEN <<n>>
    ELSE IF Head(sorted).createdAt < n.createdAt THEN <<n>> \o sorted
    ELSE <<Head(sorted)>> \o InsertNote(Tail(sorted), n)

RECURSIVE SortNotes(_)
SortNotes(ns) ==
    IF ns = << >> THEN << >>
    ELSE InsertNote(SortNotes(SubSeq(ns, 1, Len(ns) - 1)), ns[Len(ns)])

\* a variant that stamps every imported task with the time of the import
WithTimestampNow(obj, at) ==
    [id |-> obj.id, title |-> obj.title, categoryId |-> obj.categoryId,
     timeBlock |-> obj.timeBlock, status |-> obj.status,
     completedAt |-> Get(obj, "completedAt"), createdAt |-> at]

\* handleImportData: { ...task, createdAt: task.createdAt || Date.now() }
WithTimestamp(obj, at) ==
    [id |-> obj.id, title |-> obj.title, categoryId |-> obj.categoryId,
     timeBlock |-> obj.timeBlock, status |-> obj.status,
     completedAt |-> Get(obj, "completedAt"),
     createdAt |-> IF Truthy(Get(obj, "createdAt"))
                   THEN obj.createdAt ELSE at]

tasksWithTimestamp(newTasks, at) ==
    LET F(obj) == WithTimestamp(obj, at) IN MapSeq(newTasks, F)

DeleteReqs(coll, s) ==
    LET F(x) == DeleteReq(coll, x.id) IN MapSeq(s, F)

\* the requests handleImportData awaits one after the other
ImportAwaited(cats, ts, ns, newCategories, newTasks, at) ==
    DeleteReqs("tasks", ts) \o DeleteReqs("categories", cats)
        \o DeleteReqs("notes", ns)
        \o (IF Len(newCategories) > 0
            THEN <<BulkPutReq("categories", newCategories)>> ELSE << >>)
        \o (IF Len(newTasks) > 0
            THEN <<BulkPutReq("tasks", tasksWithTimestamp(newTasks, at))>>
            ELSE << >>)

\* the requests of its Promise.all, issued together
ImportNotePuts(newNotes) ==
    LET F(n) == PutReq("notes", n) IN MapSeq(newNotes, F)

-----------------------------------------------------------------------------
(* Inputs *)

\* Math.floor(Math.random() * THEMES.length) + 1, one of its values
ThemeDraws == {1}
Titles == {"a", "b"}
Labels == {"L1", "L2"}
\* getTimezoneOffset() of a browser at UTC+8 and of one at UTC
UserOffsets == {-480, 0}

ImpCategory == [id |-> "imp1", label |-> "L1", icon |-> "i1", theme |-> "sky"]
\* a task as an older version wrote it: completed, no createdAt
ImpTask ==
    [id |-> "imp1", title |-> "a", categoryId |-> "imp1",
     timeBlock |-> "morning", status |-> "completed",
     completedAt |-> StartTime - MinutesPerDay]
ImpNote == [id |-> "imp1", content |-> "n", createdAt |-> StartTime,
            theme |-> "sky"]

FileValid ==
    [json |-> TRUE, categories |-> ArrayField(<<ImpCategory>>),
     tasks |-> ArrayField(<<ImpTask>>), notes |-> ArrayField(<<ImpNote>>)]
FileEmpty ==
    [json |-> TRUE, categories |-> ArrayField(<< >>),
     tasks |-> ArrayField(<< >>), notes |-> ArrayField(<< >>)]
FixedFiles == {FileValid, FileEmpty}

-----------------------------------------------------------------------------
(* The application *)

Op(op, id, n, alert) == [op |-> op, id |-> id, n |-> n, alert |-> alert]

NoValidation == [threw |-> FALSE, valid |-> TRUE, errors |-> << >>]

\* the page is being loaded for the first time: nothing is stored yet
InitApp(offsets, files) ==
    /\ now = StartTime
    /\ tz \in offsets
    /\ phase = "loading"
    /\ categories = << >>
    /\ tasks = << >>
    /\ quickNotes = << >>
    /\ activeId = Null
    /\ store = EmptyStore
    /\ inflight = << >>
    /\ faults = 0
    /\ importError = << >>
    /\ importSuccess = FALSE
    /\ selectedCatId = Null
    /\ renderedAt = StartTime
    /\ lastOp = Op("none", Null, 0, Null)
    /\ vData \in files
    /\ vResult = NoValidation

Init == InitApp(UserOffsets, {FileEmpty})

pureVars == <<vData, vResult>>
uiVars == <<importError, importSuccess, selectedCatId>>

\* the tasks on the board as last rendered: the three Column components
\* show getTasksByBlock of each lane
Shown ==
    LET OnBoard(t) == t.timeBlock \in LaneSet
                        /\ ~shouldHideTask(t, renderedAt, tz)
    IN  Filter(tasks, OnBoard)

\* HistoryModal: completedTasks, sorted by (b.completedAt || 0) -
\* (a.completedAt || 0), stable
RECURSIVE InsertCompleted(_, _)
InsertCompleted(sorted, t) ==
    LET Key(x) == IF Truthy(x.completedAt) THEN x.completedAt ELSE 0
    IN  IF sorted = << >> THEN <<t>>
        ELSE IF Key(Head(sorted)) < Key(t) THEN <<t>> \o sorted
        ELSE <<Head(sorted)>> \o InsertCompleted(Tail(sorted), t)

RECURSIVE SortCompleted(_)
SortCompleted(ts) ==
    IF ts = << >> THEN << >>
    ELSE InsertCompleted(SortCompleted(SubSeq(ts, 1, Len(ts) - 1)),
                         ts[Len(ts)])

completedTasks(ts, filterCatId) ==
    LET Completed(t) == t.status = "completed"
        OfCategory(t) == filterCatId = "all" \/ t.categoryId = filterCatId
    IN  SortCompleted(Filter(Filter(ts, Completed), OfCategory))

\* TaskCard: isSpecial = !category, with category = getCategory(task.categoryId)
\* of Column; the card then shows the fallback label, icon and theme
isSpecial(cats, task) == \A i \in 1..Len(cats) : cats[i].id # task.categoryId

Idle == phase = "ready" /\ activeId = Null

\* a variant in which the answer is not looked at
windowConfirmIgnored(answer) == TRUE

\* window.confirm(message): what the user answers
windowConfirm(answer) == answer

\* The modals cover the page, so a handler of the board or of another modal
\* runs only after the data manager was closed; it is rendered only while
\* isDataManagerOpen, and its state starts afresh when it opens again
DataManagerClosed == importError' = << >> /\ importSuccess' = FALSE

\* TaskModal is rendered only while isModalOpen and covers the board: the
\* handlers of the board, of the notes and of the data manager run while it
\* is not there
TaskModalClosed == selectedCatId = Null /\ selectedCatId' = Null

CanIssue(reqs) == Len(inflight) + Len(reqs) <= MaxInflight

\* The store has answered every request: the user of the modals and of the
\* board acts more slowly than the store does
Settled == inflight = << >>

\* time passes
Tick ==
    /\ now + ClockStep <= MaxTime
    /\ now' = now + ClockStep
    /\ UNCHANGED <<tz, phase, categories, tasks, quickNotes, activeId, store,
                   inflight, faults, uiVars, renderedAt, lastOp, pureVars>>

\* the oldest request in flight succeeds
DbComplete ==
    /\ inflight # << >>
    /\ store' = ApplyReq(store, Head(inflight))
    /\ inflight' = Tail(inflight)
    /\ UNCHANGED <<now, tz, phase, categories, tasks, quickNotes, activeId,
                   faults, uiVars, renderedAt, lastOp, pureVars>>

\* the oldest request in flight fails: the promise of a call that is not
\* awaited rejects, and nothing handles it
DbFail ==
    /\ inflight # << >>
    /\ faults < MaxFaults
    /\ faults' = faults + 1
    /\ inflight' = Tail(inflight)
    /\ UNCHANGED <<now, tz, phase, categories, tasks, quickNotes, activeId,
                   store, uiVars, renderedAt, lastOp, pureVars>>

handleToggleStatus(id) ==
    /\ Idle
    /\ id \in Ids(Shown)
    /\ LET next == ToggleTasks(tasks, id, now)
           reqs == PutsFor(next, id)
       IN  /\ CanIssue(reqs)
           /\ tasks' = next
           /\ inflight' = inflight \o reqs
    /\ renderedAt' = now
    /\ lastOp' = Op("handleToggleStatus", id,
                    IF lastOp.op = "handleToggleStatus" /\ lastOp.id = id
                    THEN 2 ELSE 1, Null)
    /\ DataManagerClosed
    /\ TaskModalClosed
    /\ UNCHANGED <<now, tz, phase, categories, quickNotes, activeId, store,
                   faults, pureVars>>

handleAddTask(title, categoryId, timeBlock) ==
    /\ Idle
    /\ Len(tasks) < MaxTasks
    /\ LET newTask == [id |-> ToString(now), title |-> title,
                       categoryId |-> categoryId, timeBlock |-> timeBlock,
                       status |-> "active", completedAt |-> Undefined,
                       createdAt |-> now]
       IN  /\ CanIssue(<<PutReq("tasks", newTask)>>)
           /\ tasks' = Append(tasks, newTask)
           /\ inflight' = Append(inflight, PutReq("tasks", newTask))
    /\ renderedAt' = now
    /\ lastOp' = Op("handleAddTask", Null, 0, Null)
    /\ DataManagerClosed
    \* handleSubmitTask of TaskModal goes on with onClose()
    /\ selectedCatId' = Null
    /\ UNCHANGED <<now, tz, phase, categories, quickNotes, activeId, store,
                   faults, pureVars>>

handleUpdateTask(id, title, categoryId, timeBlock) ==
    /\ Idle
    /\ LET next == UpdateTasks(tasks, id, title, categoryId, timeBlock, now)
           reqs == PutsFor(next, id)
       IN  /\ CanIssue(reqs)
           /\ tasks' = next
           /\ inflight' = inflight \o reqs
    /\ renderedAt' = now
    /\ lastOp' = Op("handleUpdateTask", Null, 0, Null)
    /\ DataManagerClosed
    /\ TaskModalClosed
    /\ UNCHANGED <<now, tz, phase, categories, quickNotes, activeId, store,
                   faults, pureVars>>

handleDeleteTask(id) ==
    /\ Idle
    /\ CanIssue(<<DeleteReq("tasks", id)>>)
    /\ LET Keep(t) == t.id # id IN tasks' = Filter(tasks, Keep)
    /\ inflight' = Append(inflight, DeleteReq("tasks", id))
    /\ renderedAt' = now
    /\ lastOp' = Op("handleDeleteTask", Null, 0, Null)
    /\ DataManagerClosed
    /\ TaskModalClosed
    /\ UNCHANGED <<now, tz, phase, categories, quickNotes, activeId, store,
                   faults, pureVars>>

\* EditTaskModal, opened from a card of the board: handleSave passes the
\* task's own timeBlock, handleDelete deletes it
EditTask ==
    /\ Settled
    /\ \E i \in 1..Len(Shown) :
          \/ \E title \in Titles,
                c \in Ids(categories) \cup {Shown[i].categoryId} :
                 handleUpdateTask(Shown[i].id, title, c, Shown[i].timeBlock)
          \/ handleDeleteTask(Shown[i].id)

\* TaskModal, add-task view
AddTask ==
    /\ Settled
    /\ \E c \in Ids(categories), b \in LaneSet : handleAddTask("a", c, b)

ToggleTask == Settled /\ \E id \in Ids(Shown) : handleToggleStatus(id)

\* The clock has moved on since the newest item of the list s was created
\* with Date.now().toString() as its id: a form cannot be filled in and
\* submitted twice within one reading of the clock
ClockAdvanced(s) == ToString(now) \notin Ids(s)

\* TaskModal as it opens: the first category is selected
\* (useState(categories[0]?.id || '')), the lane is the user's choice
AddTaskFirstCategory ==
    /\ Settled
    /\ Len(categories) > 0
    /\ ClockAdvanced(tasks)
    /\ \E b \in LaneSet : handleAddTask("a", categories[1].id, b)

\* ... and the lane is left at its default too (useState('morning'))
AddTaskDefaults ==
    /\ Settled
    /\ Len(categories) > 0
    /\ ClockAdvanced(tasks)
    /\ handleAddTask("a", categories[1].id, "morning")

DeleteTask == Settled /\ \E i \in 1..Len(Shown) : handleDeleteTask(Shown[i].id)

handleDragStart(id) ==
    /\ Idle
    /\ id \in Ids(Shown)
    /\ activeId' = id
    /\ renderedAt' = now
    /\ lastOp' = Op("handleDragStart", Null, 0, Null)
    /\ DataManagerClosed
    /\ TaskModalClosed
    /\ UNCHANGED <<now, tz, phase, categories, tasks, quickNotes, store,
                   inflight, faults, pureVars>>

\* over is Null, the id of a lane (the Column droppable) or the id of a card;
\* over.data.current.sortable.containerId is the lane of a card and is
\* absent for a Column, so it never equals 'active'
handleDragOver(over) ==
    /\ phase = "ready"
    /\ activeId # Null
    /\ LET IsActive(t) == t.id = activeId
           IsOver(t) == t.id = over
           hasActive == Has(tasks, IsActive)
           activeTask == Find(tasks, IsActive)
           hasOver == Has(tasks, IsOver)
           overTask == Find(tasks, IsOver)
           target ==
               IF over = Null \/ ~hasActive THEN Null
               ELSE IF over \in LaneSet
               THEN (IF activeTask.timeBlock # over THEN over ELSE Null)
               ELSE IF hasOver /\ activeTask.timeBlock # overTask.timeBlock
               THEN overTask.timeBlock
               ELSE Null
           next == MoveToBlock(tasks, activeId, target)
           reqs == PutsFor(next, activeId)
       IN  IF target = Null
           THEN /\ UNCHANGED <<tasks, inflight, renderedAt>>
                /\ lastOp' = Op("handleDragOver", over, 0, Null)
           ELSE /\ CanIssue(reqs)
                /\ tasks' = next
                /\ inflight' = inflight \o reqs
                /\ renderedAt' = now
                /\ lastOp' = Op("handleDragOver", target, 1, Null)
    /\ DataManagerClosed
    /\ TaskModalClosed
    /\ UNCHANGED <<now, tz, phase, categories, quickNotes, activeId, store,
                   faults, pureVars>>

handleDragEnd(over) ==
    /\ phase = "ready"
    /\ activeId # Null
    /\ activeId' = Null
    /\ LET IsActive(t) == t.id = activeId
           IsOver(t) == t.id = over
           hasActive == Has(tasks, IsActive)
           activeTask == Find(tasks, IsActive)
           hasOver == Has(tasks, IsOver)
           overTask == Find(tasks, IsOver)
           sameLane == over # Null /\ hasActive /\ hasOver
                         /\ activeTask.timeBlock = overTask.timeBlock
           blockTasks == getTasksByBlock(tasks, activeTask.timeBlock, now, tz)
           oldIndex == FindIndex(blockTasks, IsActive)
           newIndex == FindIndex(blockTasks, IsOver)
       IN  IF sameLane /\ oldIndex # newIndex
           THEN /\ tasks' = ReorderTasks(tasks, activeTask.timeBlock,
                                         oldIndex, newIndex)
                /\ lastOp' = Op("handleDragEnd", over, 1, Null)
           ELSE /\ UNCHANGED tasks
                /\ lastOp' = Op("handleDragEnd", over, 0, Null)
    /\ renderedAt' = now
    /\ DataManagerClosed
    /\ TaskModalClosed
    /\ UNCHANGED <<now, tz, phase, categories, quickNotes, store, inflight,
                   faults, pureVars>>

\* what the pointer can be over: nothing, a lane, a card of the board
OverTargets == {Null} \cup LaneSet \cup Ids(Shown)

DragStart == \E id \in Ids(Shown) : handleDragStart(id)
DragOver == Settled /\ \E over \in OverTargets : handleDragOver(over)
DragEnd == \E over \in OverTargets : handleDragEnd(over)

handleAddCategory(label, theme, icon) ==
    /\ Idle
    /\ Len(categories) < MaxCategories
    /\ LET newCat == [id |-> ToString(now), label |-> label, icon |-> icon,
                      theme |-> theme]
       IN  /\ CanIssue(<<PutReq("categories", newCat)>>)
           /\ categories' = Append(categories, newCat)
           /\ inflight' = Append(inflight, PutReq("categories", newCat))
    /\ renderedAt' = now
    /\ lastOp' = Op("handleAddCategory", Null, 0, Null)
    /\ DataManagerClosed
    /\ UNCHANGED selectedCatId
    /\ UNCHANGED <<now, tz, phase, tasks, quickNotes, activeId, store,
                   faults, pureVars>>

handleUpdateCategory(id, label, theme, icon) ==
    /\ Idle
    /\ LET F(c) == IF c.id = id
                   THEN [c EXCEPT !.label = label, !.theme = theme,
                                  !.icon = icon]
                   ELSE c
           next == MapSeq(categories, F)
           Match(c) == c.id = id
           P(c) == PutReq("categories", c)
           reqs == MapSeq(Filter(next, Match), P)
       IN  /\ CanIssue(reqs)
           /\ categories' = next
           /\ inflight' = inflight \o reqs
    /\ renderedAt' = now
    /\ lastOp' = Op("handleUpdateCategory", Null, 0, Null)
    /\ DataManagerClosed
    /\ UNCHANGED selectedCatId
    /\ UNCHANGED <<now, tz, phase, tasks, quickNotes, activeId, store,
                   faults, pureVars>>

\* a variant that deletes the tasks of the category with it
handleDeleteCategoryCascade(id) ==
    /\ Idle
    /\ LET Keep(c) == c.id # id
           Orphan(t) == t.categoryId = id
           KeepTask(t) == t.categoryId # id
           reqs == <<DeleteReq("categories", id)>>
                     \o DeleteReqs("tasks", Filter(tasks, Orphan))
       IN  /\ categories' = Filter(categories, Keep)
           /\ tasks' = Filter(tasks, KeepTask)
           /\ inflight' = inflight \o reqs
    /\ renderedAt' = now
    /\ lastOp' = Op("handleDeleteCategory", id, 0, Null)
    /\ DataManagerClosed
    /\ UNCHANGED selectedCatId
    /\ UNCHANGED <<now, tz, phase, quickNotes, activeId, store, faults,
                   pureVars>>

handleDeleteCategory(id) ==
    /\ Idle
    /\ CanIssue(<<DeleteReq("categories", id)>>)
    /\ LET Keep(c) == c.id # id IN categories' = Filter(categories, Keep)
    /\ inflight' = Append(inflight, DeleteReq("categories", id))
    /\ renderedAt' = now
    /\ lastOp' = Op("handleDeleteCategory", id, 0, Null)
    /\ DataManagerClosed
    /\ UNCHANGED selectedCatId
    /\ UNCHANGED <<now, tz, phase, tasks, quickNotes, activeId, store,
                   faults, pureVars>>

\* TaskModal, manage view; the delete button is disabled while
\* categories.length <= 1
ManageCategories ==
    /\ Settled
    /\ \/ ClockAdvanced(categories) /\ handleAddCategory("L1", "amber", "i1")
       \/ \E i \in 1..Len(categories), label \in Labels :
              /\ label # categories[i].label
              /\ handleUpdateCategory(categories[i].id, label,
                                      categories[i].theme, categories[i].icon)
       \/ \E i \in 1..Len(categories) :
              /\ ~(Len(categories) <= 1)
              /\ handleDeleteCategory(categories[i].id)

handleAddNote(content, themeIndex) ==
    /\ Idle
    /\ Len(quickNotes) < MaxNotes
    /\ LET newNote == [id |-> ToString(now), content |-> content,
                       createdAt |-> now, theme |-> THEMES[themeIndex]]
       IN  /\ CanIssue(<<PutReq("notes", newNote)>>)
           /\ quickNotes' = <<newNote>> \o quickNotes
           /\ inflight' = Append(inflight, PutReq("notes", newNote))
    /\ renderedAt' = now
    /\ lastOp' = Op("handleAddNote", Null, 0, Null)
    /\ DataManagerClosed
    /\ TaskModalClosed
    /\ UNCHANGED <<now, tz, phase, categories, tasks, activeId, store,
                   faults, pureVars>>

handleDeleteNote(id) ==
    /\ Idle
    /\ CanIssue(<<DeleteReq("notes", id)>>)
    /\ LET Keep(n) == n.id # id IN quickNotes' = Filter(quickNotes, Keep)
    /\ inflight' = Append(inflight, DeleteReq("notes", id))
    /\ renderedAt' = now
    /\ lastOp' = Op("handleDeleteNote", Null, 0, Null)
    /\ DataManagerClosed
    /\ TaskModalClosed
    /\ UNCHANGED <<now, tz, phase, categories, tasks, activeId, store,
                   faults, pureVars>>

\* QuickNotesModal
Notes ==
    /\ Settled
    /\ \/ \E k \in ThemeDraws :
              ClockAdvanced(quickNotes) /\ handleAddNote("n", k)
       \/ \E i \in 1..Len(quickNotes) : handleDeleteNote(quickNotes[i].id)

-----------------------------------------------------------------------------
(* Import flow (DataManagerModal.handleFileSelect, App.handleImportData) *)

\* The files the user can pick: the file the export button writes for the
\* data shown, and the fixed files above
Files == {exportDataAsJSON(categories, tasks, quickNotes)} \cup FixedFiles

\* handleImportData succeeds.  Requests are served in the order they were
\* issued, so the ones in flight when the import starts complete before its
\* first delete does.
ImportSucceeds(file) ==
    LET newCategories == file.categories.items
        newTasks == file.tasks.items
        newNotes == file.notes.items
        awaited == ImportAwaited(categories, tasks, quickNotes,
                                 newCategories, newTasks, now)
    IN  /\ store' = ApplyAll(ApplyAll(store, inflight),
                             awaited \o ImportNotePuts(newNotes))
        /\ inflight' = << >>
        /\ categories' = newCategories
        /\ tasks' = tasksWithTimestamp(newTasks, now)
        /\ quickNotes' = SortNotes(newNotes)
        /\ UNCHANGED faults

\* One request of handleImportData fails: the awaited requests before it
\* have been applied, the catch block alerts, and no state is set.  When a
\* put of the Promise.all fails the other puts stay in flight.
ImportFails(file) ==
    LET newCategories == file.categories.items
        newTasks == file.tasks.items
        newNotes == file.notes.items
        awaited == ImportAwaited(categories, tasks, quickNotes,
                                 newCategories, newTasks, now)
        puts == ImportNotePuts(newNotes)
        Others(j) == SubSeq(puts, 1, j - 1) \o SubSeq(puts, j + 1, Len(puts))
    IN  /\ faults < MaxFaults
        /\ faults' = faults + 1
        /\ \/ \E k \in 0..(Len(awaited) - 1) :
                 /\ store' = ApplyAll(ApplyAll(store, inflight),
                                      SubSeq(awaited, 1, k))
                 /\ inflight' = << >>
           \/ \E j \in 1..Len(puts) :
                 /\ store' = ApplyAll(ApplyAll(store, inflight), awaited)
                 /\ inflight' = Others(j)
        /\ UNCHANGED <<categories, tasks, quickNotes>>

handleFileSelect(file, confirmed) ==
    /\ Idle
    /\ LET read == importDataFromJSON(file)
           validation == validateImportData(file)
           roundTrip == IF file = exportDataAsJSON(categories, tasks, quickNotes)
                        THEN 1 ELSE 0
       IN  IF ~read.ok
           THEN /\ importError' = <<Msg(read.error, 0, Null)>>
                /\ importSuccess' = FALSE
                /\ lastOp' = Op("handleFileSelect", "rejected", roundTrip, Null)
                /\ UNCHANGED <<categories, tasks, quickNotes, store, inflight,
                               faults, renderedAt>>
           ELSE IF ~validation.valid
           THEN /\ importError' = validation.errors
                /\ importSuccess' = FALSE
                /\ lastOp' = Op("handleFileSelect", "rejected", roundTrip, Null)
                /\ UNCHANGED <<categories, tasks, quickNotes, store, inflight,
                               faults, renderedAt>>
           ELSE IF ~windowConfirm(confirmed)
           THEN /\ importError' = << >>
                /\ importSuccess' = FALSE
                /\ lastOp' = Op("handleFileSelect", "declined", roundTrip, Null)
                /\ UNCHANGED <<categories, tasks, quickNotes, store, inflight,
                               faults, renderedAt>>
           ELSE /\ \/ /\ ImportSucceeds(file)
                      /\ lastOp' = Op("handleFileSelect", "imported",
                                      roundTrip, Null)
                   \/ /\ ImportFails(file)
                      /\ lastOp' = Op("handleFileSelect", "importFailed",
                                      roundTrip, "Import failed")
                \* await onImportData(...) returns normally either way
                /\ importSuccess' = TRUE
                /\ importError' = << >>
                /\ renderedAt' = now
    /\ TaskModalClosed
    /\ UNCHANGED <<now, tz, phase, activeId, pureVars>>

ImportFile == \E file \in Files, confirmed \in BOOLEAN :
                  handleFileSelect(file, confirmed)

\* setTimeout(() => setImportSuccess(false), 3000)
ImportSuccessTimeout ==
    /\ phase = "ready"
    /\ importSuccess
    /\ importSuccess' = FALSE
    /\ UNCHANGED <<now, tz, phase, categories, tasks, quickNotes, activeId,
                   store, inflight, faults, importError, selectedCatId,
                   renderedAt, lastOp, pureVars>>

-----------------------------------------------------------------------------
(* Reset and page load *)

\* The page is unloaded: the state of the components is gone.  Of the
\* requests in flight the oldest k had reached the store and complete, the
\* others are lost with the page.
Unload(k) ==
    /\ phase' = "loading"
    /\ categories' = << >>
    /\ tasks' = << >>
    /\ quickNotes' = << >>
    /\ activeId' = Null
    /\ inflight' = << >>
    /\ importError' = << >>
    /\ importSuccess' = FALSE
    /\ selectedCatId' = Null
    /\ renderedAt' = now

\* a variant of deleteDatabase that leaves the notes behind
deleteDatabaseKeepsNotes(st) == [EmptyStore EXCEPT !.notes = st.notes]

\* DB.deleteDatabase: the database is deleted with all its object stores
deleteDatabase(st) == EmptyStore

handleClearData(confirmed) ==
    /\ Idle
    /\ IF ~windowConfirm(confirmed)
       THEN /\ lastOp' = Op("handleClearData", "declined", 0, Null)
            /\ UNCHANGED <<phase, categories, tasks, quickNotes, activeId,
                           store, inflight, faults, uiVars, renderedAt>>
       ELSE \/ /\ store' = deleteDatabase(store)
               /\ \E k \in 0..Len(inflight) : Unload(k)
               /\ lastOp' = Op("handleClearData", "cleared",
                               Len(tasks) + Len(quickNotes), Null)
               /\ UNCHANGED faults
            \/ /\ faults < MaxFaults
               /\ faults' = faults + 1
               /\ lastOp' = Op("handleClearData", "failed", 0, "Reset failed")
               /\ UNCHANGED <<phase, categories, tasks, quickNotes, activeId,
                              store, inflight, uiVars, renderedAt>>
    /\ UNCHANGED <<now, tz, pureVars>>

ClearData == \E confirmed \in BOOLEAN : handleClearData(confirmed)

\* the user reloads the page
BrowserReload ==
    /\ phase = "ready"
    /\ \E k \in 0..Len(inflight) :
          /\ store' = ApplyAll(store, SubSeq(inflight, 1, k))
          /\ Unload(k)
    /\ lastOp' = Op("reload", Null, 0, Null)
    /\ UNCHANGED <<now, tz, faults, pureVars>>

\* a variant that stamps a task lacking createdAt with the load time always
migrateTaskDataNow(ts, at) ==
    LET F(task) ==
            IF ~Truthy(task.createdAt) THEN [task EXCEPT !.createdAt = at]
            ELSE task
    IN  MapSeq(ts, F)

\* migrateTaskData: the tasks it returns
migrateTaskData(ts, at) ==
    LET F(task) ==
            IF ~Truthy(task.createdAt)
            THEN [task EXCEPT !.createdAt =
                      IF Truthy(task.completedAt) THEN task.completedAt ELSE at]
            ELSE task
    IN  MapSeq(ts, F)

hasMigrated(ts) == \E i \in 1..Len(ts) : ~Truthy(ts[i].createdAt)

\* initData.  failAt names the request that fails ("none": no request does);
\* the catch block logs, and what was set before the failure stays set.
InitSteps == {"none", "getCategories", "seedCategories", "getTasks",
              "hasNotes", "seedTasks", "migrate", "getNotes"}

initDataResult(st, at, failAt) ==
    LET dbCats0 == DBgetAll(st, "categories")
        seedCats == Len(dbCats0) = 0
        st1 == IF seedCats
               THEN ApplyReq(st, BulkPutReq("categories", DEFAULT_CATEGORIES))
               ELSE st
        dbCats == IF seedCats THEN DEFAULT_CATEGORIES ELSE dbCats0
        dbTasks0 == DBgetAll(st1, "tasks")
        noTasks == Len(dbTasks0) = 0
        hasNotes == Len(DBgetAll(st1, "notes")) > 0
        seedTasks == noTasks /\ ~hasNotes
                       /\ Len(dbCats) = Len(DEFAULT_CATEGORIES)
        migrates == ~noTasks /\ hasMigrated(dbTasks0)
        dbTasks == IF noTasks
                   THEN (IF seedTasks THEN INITIAL_TASKS ELSE dbTasks0)
                   ELSE migrateTaskData(dbTasks0, at)
        P(t) == PutReq("tasks", t)
        st2 == IF seedTasks
               THEN ApplyReq(st1, BulkPutReq("tasks", INITIAL_TASKS))
               ELSE IF migrates THEN ApplyAll(st1, MapSeq(dbTasks, P))
               ELSE st1
        dbNotes == DBgetAll(st2, "notes")
        Result(c, t, n, s) ==
            [categories |-> c, tasks |-> t, quickNotes |-> n, store |-> s]
    IN  CASE failAt = "getCategories" -> Result(<< >>, << >>, << >>, st)
          [] failAt = "seedCategories" -> Result(<< >>, << >>, << >>, st)
          [] failAt = "getTasks" -> Result(dbCats, << >>, << >>, st1)
          [] failAt = "hasNotes" -> Result(dbCats, << >>, << >>, st1)
          [] failAt = "seedTasks" -> Result(dbCats, << >>, << >>, st1)
          \* one put of the Promise.all fails; here the first one, the
          \* others complete
          [] failAt = "migrate" ->
                Result(dbCats, << >>, << >>,
                       ApplyAll(st1, MapSeq(Tail(dbTasks), P)))
          [] failAt = "getNotes" -> Result(dbCats, dbTasks, << >>, st2)
          [] OTHER -> Result(dbCats, dbTasks, SortNotes(dbNotes), st2)

\* is the request failAt issued at all when initData runs on st
initDataIssues(st, failAt) ==
    LET dbCats0 == DBgetAll(st, "categories")
        seedCats == Len(dbCats0) = 0
        dbCats == IF seedCats THEN DEFAULT_CATEGORIES ELSE dbCats0
        noTasks == Len(DBgetAll(st, "tasks")) = 0
        hasNotes == Len(DBgetAll(st, "notes")) > 0
    IN  CASE failAt = "seedCategories" -> seedCats
          [] failAt = "hasNotes" -> noTasks
          [] failAt = "seedTasks" ->
                noTasks /\ ~hasNotes /\ Len(dbCats) = Len(DEFAULT_CATEGORIES)
          [] failAt = "migrate" ->
                ~noTasks /\ hasMigrated(DBgetAll(st, "tasks"))
          [] OTHER -> TRUE

initData(failAt) ==
    /\ phase = "loading"
    /\ initDataIssues(store, failAt)
    /\ IF failAt = "none" THEN UNCHANGED faults
       ELSE faults < MaxFaults /\ faults' = faults + 1
    /\ LET r == initDataResult(store, now, failAt)
       IN  /\ categories' = r.categories
           /\ tasks' = r.tasks
           /\ quickNotes' = r.quickNotes
           /\ store' = r.store
    /\ phase' = "ready"
    /\ renderedAt' = now
    \* n: after a reset, one more than the number of items it erased
    /\ lastOp' = Op("initData", failAt,
                    IF lastOp.op = "handleClearData" /\ lastOp.id = "cleared"
                    THEN lastOp.n + 1 ELSE 0, Null)
    /\ UNCHANGED <<now, tz, activeId, inflight, uiVars, pureVars>>

PageLoad == \E failAt \in InitSteps : initData(failAt)

-----------------------------------------------------------------------------
Next ==
    \/ Tick
    \/ DbComplete
    \/ DbFail
    \/ PageLoad
    \/ BrowserReload
    \/ AddTask
    \/ EditTask
    \/ ToggleTask
    \/ DragStart
    \/ DragOver
    \/ DragEnd
    \/ ManageCategories
    \/ Notes
    \/ ImportFile
    \/ ImportSuccessTimeout
    \/ ClearData

Spec == Init /\ [][Next]_vars

\* The board: tasks are added, completed and dragged; every request succeeds
NextBoard ==
    \/ Tick
    \/ DbComplete
    \/ PageLoad
    \/ AddTaskFirstCategory
    \/ ToggleTask
    \/ DragStart
    \/ DragOver
    \/ DragEnd

SpecBoard == Init /\ [][NextBoard]_vars

\* The data: items are added and deleted, files imported, the store reset;
\* requests may fail
InitData == InitApp({-480}, {FileEmpty})

NextData ==
    \/ Tick
    \/ DbComplete
    \/ DbFail
    \/ PageLoad
    \/ AddTaskDefaults
    \/ DeleteTask
    \/ Notes
    \/ ImportFile
    \/ ImportSuccessTimeout
    \/ ClearData

SpecData == InitData /\ [][NextData]_vars

-----------------------------------------------------------------------------
(* Import files: validateImportData and the file flow on arbitrary payloads *)

MaxFileCategories == 2
MaxFileTasks == 3

SeqsUpTo(S, n) == UNION {[1..k -> S] : k \in 0..n}

FileCategoryIds == {"imp1", "imp2"}
\* categoryId values of the tasks of a file; "nope" names no category
FileTaskCategoryIds == FileCategoryIds \cup {"nope"}

FileCategories(ids) ==
    [i \in 1..Len(ids) |-> [ImpCategory EXCEPT !.id = ids[i]]]

FileTasks(categoryIds) ==
    [i \in 1..Len(categoryIds) |->
        [ImpTask EXCEPT !.id = KeyOrder[Len(Times) + 2 + i],
                        !.categoryId = categoryIds[i]]]

\* what a file can hold under one of the three keys
\* the categories of a file written by hand: two entries of one id that
\* differ in their label
FileCategoriesOneId == <<ImpCategory, [ImpCategory EXCEPT !.label = "L2"]>>

CategoryFields ==
    {MissingField, OtherField, ArrayField(FileCategoriesOneId)}
        \cup {ArrayField(FileCategories(ids)) :
                 ids \in SeqsUpTo(FileCategoryIds, MaxFileCategories)}
\* a task of a file written by hand: active, its timeBlock names no lane
FileTaskOffLane ==
    [ImpTask EXCEPT !.timeBlock = "night", !.status = "active",
                    !.completedAt = Undefined]

TaskFields ==
    {MissingField, OtherField, ArrayField(<<FileTaskOffLane>>)}
        \cup {ArrayField(FileTasks(cids)) :
                 cids \in SeqsUpTo(FileTaskCategoryIds, MaxFileTasks)}
NoteFields == {MissingField, OtherField, ArrayField(<<ImpNote>>)}

Payloads ==
    [json : {TRUE}, categories : CategoryFields, tasks : TaskFields,
     notes : NoteFields]

\* validateImportData(data) is called on the payload
Validate ==
    /\ vResult' = validateImportData(vData)
    /\ lastOp' = Op("validateImportData", Null, 0, Null)
    /\ UNCHANGED <<now, tz, phase, categories, tasks, quickNotes, activeId,
                   store, inflight, faults, importError, importSuccess,
                   selectedCatId, renderedAt, vData>>

\* the user picks the file holding the payload
SelectFile == \E confirmed \in BOOLEAN : handleFileSelect(vData, confirmed)

InitFiles == InitApp({-480}, Payloads)

NextFiles ==
    \/ PageLoad
    \/ Validate
    \/ SelectFile

SpecFiles == InitFiles /\ [][NextFiles]_vars

-----------------------------------------------------------------------------
(* Reordering: boards with tasks in every lane, some of them off the board *)

BoardSize == 4

\* The i-th task of a populated board, created on the first day.  When
\* completed, the older half was completed the day before the page loaded,
\* the newer half a minute before.
BoardTask(i, lane, status) ==
    [id |-> ToString(i), title |-> "a", categoryId |-> "cat1",
     timeBlock |-> lane, status |-> status,
     completedAt |-> IF status = "active" THEN Undefined
                     ELSE IF 2 * i <= BoardSize THEN MinutesPerDay
                     ELSE StartTime - 1,
     createdAt |-> i]

Boards ==
    {[i \in 1..BoardSize |-> BoardTask(i, lanes[i], statuses[i])] :
        lanes \in [1..BoardSize -> LaneSet],
        statuses \in [1..BoardSize -> {"active", "completed"}]}

\* the page has loaded a stored board
InitReorder ==
    /\ now = StartTime
    /\ tz = -480
    /\ phase = "ready"
    /\ categories = DEFAULT_CATEGORIES
    /\ tasks \in Boards
    /\ quickNotes = << >>
    /\ activeId = Null
    /\ store = [EmptyStore EXCEPT
                   !.categories = StorePutAll(<< >>, DEFAULT_CATEGORIES),
                   !.tasks = StorePutAll(<< >>, tasks)]
    /\ inflight = << >>
    /\ faults = 0
    /\ importError = << >>
    /\ importSuccess = FALSE
    /\ selectedCatId = Null
    /\ renderedAt = StartTime
    /\ lastOp = Op("initData", "none", 0, Null)
    /\ vData = FileEmpty
    /\ vResult = NoValidation

NextReorder ==
    \/ Tick
    \/ DragStart
    \/ DragEnd

SpecReorder == InitReorder /\ [][NextReorder]_vars

-----------------------------------------------------------------------------
(* Properties *)

\* the latest instant at or before t at which a clock set to UTC+8 read 00:00
BeijingWallMidnight(t) ==
    LET wall == t + 8 * 60
    IN  (wall - (wall % MinutesPerDay)) - 8 * 60

Count(s, x) == Cardinality({i \in 1..Len(s) : s[i] = x})

\* the lists hold the same records, each as often in one as in the other
SameRecords(s, t) ==
    /\ Len(s) = Len(t)
    /\ \A x \in Range(s) \cup Range(t) : Count(s, x) = Count(t, x)

InLane(s, b) == LET Keep(t) == t.timeBlock = b IN Filter(s, Keep)
OutOfLane(s, b) == LET Keep(t) == t.timeBlock # b IN Filter(s, Keep)

\* handleToggleStatus(id) called at the instant at1 and again at at2
ToggledTwice(ts, id, at1, at2) ==
    ToggleTasks(ToggleTasks(ts, id, at1), id, at2)

\* C1 as stated: toggling a task twice in a row gives it its original
\* status back and leaves its completedAt cleared, and changes no other task.
C1_ToggleTwiceClears ==
    phase = "ready" =>
        \A i \in 1..Len(tasks) : \A at2 \in {now, now + ClockStep} :
            LET id == tasks[i].id
                twice == ToggledTwice(tasks, id, now, at2)
            IN  /\ Len(twice) = Len(tasks)
                /\ \A j \in 1..Len(tasks) :
                      twice[j] = IF tasks[j].id = id
                                 THEN [tasks[j] EXCEPT
                                          !.completedAt = Undefined]
                                 ELSE tasks[j]

\* C1 amended: toggling a task twice in a row gives it its original status
\* back; its completedAt is cleared when the task was active at first, and is
\* the instant of the second toggle when it was completed at first; no other
\* field and no task with another id changes.
C1_ToggleTwice ==
    phase = "ready" =>
        \A i \in 1..Len(tasks) : \A at2 \in {now, now + ClockStep} :
            LET id == tasks[i].id
                twice == ToggledTwice(tasks, id, now, at2)
            IN  /\ Len(twice) = Len(tasks)
                /\ \A j \in 1..Len(tasks) :
                      twice[j] = IF tasks[j].id = id
                                 THEN [tasks[j] EXCEPT
                                          !.completedAt =
                                              IF tasks[j].status = "active"
                                              THEN Undefined ELSE at2]
                                 ELSE tasks[j]

\* a completed task was toggled twice in a row, while another task exists
C1_Witness ==
    /\ lastOp.op = "handleToggleStatus"
    /\ lastOp.n = 2
    /\ Len(tasks) > 1
    /\ \E i \in 1..Len(tasks) :
          /\ tasks[i].id = lastOp.id
          /\ tasks[i].status = "completed"
          /\ tasks[i].completedAt = now

\* C2 as stated: the board hides a task exactly when it is completed and its
\* completedAt is strictly before the start of the current UTC+8 day; the
\* lane queries return the other tasks of their lane, and only those.
C2_HiddenBeforeReferenceDay ==
    phase = "ready" =>
        /\ \A i \in 1..Len(tasks) :
              shouldHideTask(tasks[i], now, tz)
                  <=> /\ tasks[i].status = "completed"
                      /\ tasks[i].completedAt # Undefined
                      /\ tasks[i].completedAt < BeijingWallMidnight(now)
        /\ \A b \in LaneSet :
              LET Keep(t) ==
                      /\ t.timeBlock = b
                      /\ ~(/\ t.status = "completed"
                           /\ t.completedAt # Undefined
                           /\ t.completedAt < BeijingWallMidnight(now))
              IN  getTasksByBlock(tasks, b, now, tz) = Filter(tasks, Keep)

\* the lane the pointer is over: the lane itself or the lane of a card
DragTargetLane(over) ==
    LET IsOver(t) == t.id = over
    IN  IF over \in LaneSet THEN over
        ELSE IF Has(tasks, IsOver) THEN Find(tasks, IsOver).timeBlock
        ELSE Null

\* C3: when the dragged task is over a lane, or over a task of a lane, other
\* than its own, handleDragOver sets the dragged task's timeBlock to that
\* lane and changes nothing else: every other field, every other task and
\* the order of the list stay as they were.
C3_DragOverSetsOnlyLane ==
    [][\A over \in LaneSet \cup Ids(tasks) :
          LET IsActive(t) == t.id = activeId
              target == DragTargetLane(over)
          IN  (/\ lastOp'.op = "handleDragOver"
               /\ handleDragOver(over)
               /\ Has(tasks, IsActive)
               /\ Find(tasks, IsActive).timeBlock # target)
              => /\ Len(tasks') = Len(tasks)
                 /\ \A j \in 1..Len(tasks) :
                       tasks'[j] = IF tasks[j].id = activeId
                                   THEN [tasks[j] EXCEPT !.timeBlock = target]
                                   ELSE tasks[j]]_vars

\* a task was dragged over another lane while a second task was in the list
C3_Witness ==
    /\ lastOp.op = "handleDragOver"
    /\ lastOp.n = 1
    /\ Len(tasks) > 1
    /\ activeId # Null
    /\ tasks[1].id = activeId

\* C4: when a task is dropped on another task of its lane, handleDragEnd
\* leaves the list holding the same task records, and the tasks of the other
\* two lanes keep their order relative to one another.
C4_DropKeepsRecords ==
    [][\A over \in Ids(tasks) :
          LET IsActive(t) == t.id = activeId
              lane == DragTargetLane(over)
          IN  (/\ lastOp'.op = "handleDragEnd"
               /\ handleDragEnd(over)
               /\ over # activeId
               /\ Has(tasks, IsActive)
               /\ Find(tasks, IsActive).timeBlock = lane)
              => /\ SameRecords(tasks, tasks')
                 /\ OutOfLane(tasks', lane) = OutOfLane(tasks, lane)]_vars

\* a drop has reordered a lane while another lane held two tasks or more
C4_Witness ==
    /\ lastOp.op = "handleDragEnd"
    /\ lastOp.n = 1
    /\ \E b \in LaneSet :
          /\ Len(InLane(tasks, b)) > 1
          /\ b # DragTargetLane(lastOp.id)

\* the positions, counted from 1, of the tasks of a payload whose categoryId
\* is the id of none of its categories
Offending(data) ==
    {i \in 1..Len(data.tasks.items) :
        data.tasks.items[i].categoryId \notin Ids(data.categories.items)}

IsTaskError(m) == m.index > 0

\* C5: when categories and tasks of the payload are arrays,
\* validateImportData lists one error for each task whose categoryId is the
\* id of no imported category, in the order of the tasks, each naming the
\* task's position counted from 1 and its categoryId, and lists no other
\* task; when notes is an array too, valid is false exactly when there is
\* such a task, and the list holds nothing else.
C5_OneErrorPerOffendingTask ==
    (/\ lastOp.op = "validateImportData"
     /\ vData.categories.kind = "array"
     /\ vData.tasks.kind = "array")
    => LET taskErrors == SelectSeq(vResult.errors, IsTaskError)
       IN  /\ ~vResult.threw
           /\ Len(taskErrors) = Cardinality(Offending(vData))
           /\ \A k \in 1..Len(taskErrors) :
                 /\ taskErrors[k].index \in Offending(vData)
                 /\ taskErrors[k].categoryId =
                        vData.tasks.items[taskErrors[k].index].categoryId
                 /\ k > 1 => taskErrors[k - 1].index < taskErrors[k].index
           /\ vData.notes.kind = "array"
                 => /\ vResult.valid <=> Offending(vData) = {}
                    /\ vResult.errors = taskErrors

\* a payload was validated in which the first and the last of three tasks
\* name an unknown category and the one between them a known one
C5_Witness ==
    /\ lastOp.op = "validateImportData"
    /\ vData.categories.kind = "array"
    /\ vData.tasks.kind = "array"
    /\ vData.notes.kind = "array"
    /\ Offending(vData) = {1, 3}
    /\ Len(vResult.errors) = 2
    /\ ~vResult.valid

\* C10 as stated: for every time-zone offset of the browser,
\* getBeijingTodayStart returns the most recent instant, at or before now, at
\* which it was midnight in UTC+8.
C10_BeijingMidnightAnyOffset ==
    phase = "ready" => getBeijingTodayStart(now, tz) = BeijingWallMidnight(now)

\* the records a stored collection holds
Stored(st, coll) == {st[coll][k] : k \in DOMAIN st[coll]}

\* the in-memory list kept in a collection
InMemory(cats, ts, ns, coll) ==
    CASE coll = "categories" -> cats
      [] coll = "tasks" -> ts
      [] coll = "notes" -> ns

\* the export button's file for the data in memory is picked and confirmed
RoundTrip ==
    /\ lastOp'.op = "handleFileSelect"
    /\ lastOp'.id = "imported"
    /\ now' = now
    /\ importSuccess'
    /\ handleFileSelect(exportDataAsJSON(categories, tasks, quickNotes), TRUE)

Defects(data) ==
    Cardinality({f \in {"categories", "tasks", "notes"} : NotArray(data[f])})
      + (IF NotArray(data.categories) \/ NotArray(data.tasks) THEN 0
         ELSE Cardinality(Offending(data)))

\* C7 as stated: a file with a missing or non-array collection, or with a
\* task naming an unknown category, is rejected; the list shown holds one
\* message for each defect, every defective collection and every offending
\* task; handleImportData is not called.
C7_OneMessagePerDefect ==
    (lastOp.op = "handleFileSelect" /\ Defects(vData) > 0)
    => /\ lastOp.id = "rejected"
       /\ Len(importError) = Defects(vData)

\* C8 as stated: after handleImportData has succeeded each stored collection
\* holds exactly the imported records, whatever came before the import.
C8_StoreHoldsExactlyImported ==
    (lastOp.op = "handleFileSelect" /\ lastOp.id = "imported")
    => \A coll \in Collections :
          Stored(store, coll)
              = Range(InMemory(categories, tasks, quickNotes, coll))

\* C9: when the user declines the confirmation, handleClearData neither
\* deletes the database nor reloads the page, the import flow does not call
\* handleImportData, and the data in memory and in the store stays as it is.
C9_DeclineChangesNothing ==
    [][(\/ lastOp'.op = "handleClearData" /\ handleClearData(FALSE)
        \/ /\ lastOp'.op = "handleFileSelect"
           /\ now' = now
           /\ faults' = faults
           /\ \E file \in Files :
              /\ importDataFromJSON(file).ok
              /\ validateImportData(file).valid
              /\ handleFileSelect(file, FALSE))
       => /\ UNCHANGED <<categories, tasks, quickNotes, store, inflight,
                         phase>>
          /\ lastOp'.id = "declined"]_vars

\* the user has declined to clear the data while a task was stored
C9_Witness ==
    /\ lastOp.op = "handleClearData"
    /\ lastOp.id = "declined"
    /\ Len(tasks) > 0
    /\ Stored(store, "tasks") # {}
    /\ phase = "ready"

\* no two elements of the list have the same id
UniqueIds(s) == \A i, j \in 1..Len(s) : s[i].id = s[j].id => i = j

\* C11 as stated: in every reachable state no two tasks, no two categories
\* and no two notes share an id, in memory and in the store, also after an
\* accepted import.
C11_IdsUnique ==
    /\ UniqueIds(categories)
    /\ UniqueIds(tasks)
    /\ UniqueIds(quickNotes)
    /\ \A coll \in Collections :
          \A k \in DOMAIN store[coll] : store[coll][k].id = k

\* C12 as stated: in every reachable state the timeBlock of every task is
\* one of morning, afternoon, evening, also after an accepted import, so
\* every task that is not hidden is in exactly one of the three lanes.
C12_TimeBlockIsALane ==
    phase = "ready" =>
        \A i \in 1..Len(tasks) :
            /\ tasks[i].timeBlock \in LaneSet
            /\ ~shouldHideTask(tasks[i], now, tz)
                 => Cardinality(
                        {b \in LaneSet :
                            tasks[i] \in
                                Range(getTasksByBlock(tasks, b, now, tz))})
                      = 1

-----------------------------------------------------------------------------
(* Categories: tasks are added, categories added, renamed and deleted *)

NextCategories ==
    \/ Tick
    \/ DbComplete
    \/ PageLoad
    \/ AddTaskFirstCategory
    \/ ManageCategories

SpecCategories == InitData /\ [][NextCategories]_vars

\* the store as it is once the requests rs in flight have completed
Landed(st, rs) == ApplyAll(st, rs)

\* C13: handleDeleteCategory(id) removes the category with that id, and
\* nothing else, from the categories in memory and, once its request has
\* completed, from the stored categories; the task list and the stored
\* tasks and notes stay as they are, tasks of the deleted category
\* included, and these stay on the board, shown with the fallback category.
C13_DeleteCategoryKeepsTasks ==
    [][\A id \in Ids(categories) :
          (lastOp'.op = "handleDeleteCategory" /\ handleDeleteCategory(id))
          => LET Keep(c) == c.id # id
                 before == Landed(store, inflight)
                 after == Landed(store', inflight')
             IN  /\ categories' = Filter(categories, Keep)
                 /\ tasks' = tasks
                 /\ quickNotes' = quickNotes
                 /\ DOMAIN after.categories = (DOMAIN before.categories) \ {id}
                 /\ \A k \in DOMAIN after.categories :
                       after.categories[k] = before.categories[k]
                 /\ after.tasks = before.tasks
                 /\ after.notes = before.notes
                 /\ \A b \in LaneSet :
                       getTasksByBlock(tasks', b, now', tz')
                           = getTasksByBlock(tasks, b, now, tz)
                 /\ \A i \in 1..Len(tasks') :
                       tasks'[i].categoryId = id
                           => isSpecial(categories', tasks'[i])]_vars

\* a category was deleted whose task is still on the board and stored
C13_Witness ==
    /\ lastOp.op = "handleDeleteCategory"
    /\ \E i \in 1..Len(tasks) :
          /\ tasks[i].categoryId = lastOp.id
          /\ isSpecial(categories, tasks[i])
          /\ ~shouldHideTask(tasks[i], now, tz)
          /\ tasks[i].id \in DOMAIN store.tasks
    /\ lastOp.id \notin DOMAIN store.categories

\* the last record of items with key k
LastWithId(items, k) ==
    items[CHOOSE i \in 1..Len(items) :
              /\ items[i].id = k
              /\ \A j \in (i + 1)..Len(items) : items[j].id # k]

\* what a request r must have made of the collection before, giving after
Upserted(before, after, items) ==
    /\ DOMAIN after = (DOMAIN before) \cup Ids(items)
    /\ \A k \in DOMAIN after :
          after[k] = IF k \in Ids(items) THEN LastWithId(items, k)
                     ELSE before[k]

Removed(before, after, id) ==
    /\ DOMAIN after = (DOMAIN before) \ {id}
    /\ \A k \in DOMAIN after : after[k] = before[k]

\* C14: a put inserts the record or replaces the one of the same id, a
\* delete removes the record of that id and nothing else (nothing at all
\* when there is none), a bulk seed upserts each of its records, getAll
\* returns exactly the stored records, and the records of other ids and of
\* the other two collections are left as they were.
C14_StoreOperations ==
    [][(inflight # << >> /\ faults' = faults /\ DbComplete)
          => LET r == Head(inflight)
                 seeded == ApplyReq(store', BulkPutReq("categories",
                                                        DEFAULT_CATEGORIES))
             IN  /\ \A c \in Collections \ {r.coll} : store'[c] = store[c]
                 /\ r.op = "delete"
                       => Removed(store[r.coll], store'[r.coll], r.id)
                 /\ r.op # "delete"
                       => Upserted(store[r.coll], store'[r.coll], r.items)
                 /\ Upserted(store'.categories, seeded.categories,
                             DEFAULT_CATEGORIES)
                 /\ seeded.tasks = store'.tasks
                 /\ seeded.notes = store'.notes
                 /\ \A c \in Collections :
                       /\ Range(DBgetAll(store', c))
                             = {store'[c][k] : k \in DOMAIN store'[c]}
                       /\ Len(DBgetAll(store', c))
                             = Cardinality(DOMAIN store'[c])]_vars

\* a delete has completed and removed one of two stored tasks
C14_Witness ==
    /\ lastOp.op = "handleDeleteTask"
    /\ inflight = << >>
    /\ faults = 0
    /\ Len(tasks) = 1
    /\ DOMAIN store.tasks = {tasks[1].id}
    /\ store.tasks[tasks[1].id] = tasks[1]
    /\ DOMAIN store.categories = Ids(DEFAULT_CATEGORIES)

-----------------------------------------------------------------------------
(* A quick user: the next click comes before the store has answered *)

\* the checkbox of a card is clicked while earlier requests are in flight
QuickToggle == \E id \in Ids(Shown) : handleToggleStatus(id)

NextQueue ==
    \/ Tick
    \/ DbComplete
    \/ PageLoad
    \/ AddTaskDefaults
    \/ QuickToggle

SpecQueue == InitData /\ [][NextQueue]_vars

\* C15: the persistence calls of the UI handlers are awaited one after the
\* other, so at no time are two of their requests in flight at once.
C15_OneRequestInFlight == Len(inflight) <= 1

\* C16: whenever a persistence call fails, whoever issued it, the failure
\* is surfaced to the user through an alert.
C16_FailureAlerted ==
    [][faults' = faults + 1 => (lastOp' # lastOp /\ lastOp'.alert # Null)]_vars

-----------------------------------------------------------------------------
(* The life of a task: added, completed, edited, deleted and dragged *)

\* EditTaskModal: the title of a card is changed and saved
RenameTask ==
    /\ Settled
    /\ \E i \in 1..Len(Shown) :
          handleUpdateTask(Shown[i].id, "b", Shown[i].categoryId,
                           Shown[i].timeBlock)

NextLifecycle ==
    \/ Tick
    \/ DbComplete
    \/ PageLoad
    \/ AddTaskFirstCategory
    \/ ToggleTask
    \/ RenameTask
    \/ DragStart
    \/ DragOver
    \/ DragEnd

SpecLifecycle == InitData /\ [][NextLifecycle]_vars

CompletedIffStamped(t) ==
    /\ t.status \in {"active", "completed"}
    /\ t.status = "completed" <=> t.completedAt # Undefined

\* C17: a task is created active with no completedAt, and after any toggles,
\* edits and drags of tasks created in the app a task is completed if and
\* only if its completedAt is set, which is then the time of the toggle
\* that completed it; the stored records agree.
C17_CompletedIffStamped ==
    [][/\ \A i \in 1..Len(tasks') :
            LET t == tasks'[i]
            IN  /\ CompletedIffStamped(t)
                /\ t.timeBlock \in LaneSet
                /\ t.id \notin Ids(tasks) /\ lastOp'.op = "handleAddTask"
                      => t.status = "active" /\ t.completedAt = Undefined
                /\ \A j \in 1..Len(tasks) :
                      (tasks[j].id = t.id /\ tasks[j].status # t.status)
                          => /\ lastOp'.op = "handleToggleStatus"
                             /\ t.status = "completed" => t.completedAt = now
                /\ \A j \in 1..Len(tasks) :
                      (tasks[j].id = t.id /\ tasks[j].status = t.status)
                          => t.completedAt = tasks[j].completedAt
       /\ \A k \in DOMAIN store'.tasks :
            CompletedIffStamped(store'.tasks[k])]_vars

\* a completed task was edited and then dragged to another lane
C17_Witness ==
    /\ lastOp.op = "handleDragEnd"
    /\ \E i \in 1..Len(tasks) :
          /\ tasks[i].status = "completed"
          /\ tasks[i].completedAt > tasks[i].createdAt
          /\ tasks[i].title # "a"
          /\ tasks[i].timeBlock # "morning"
          /\ tasks[i].id \in DOMAIN store.tasks
          /\ store.tasks[tasks[i].id] = tasks[i]

\* the store that holds the default categories and nothing else
DefaultStore ==
    [EmptyStore EXCEPT !.categories = StorePutAll(<< >>, DEFAULT_CATEGORIES)]

\* C18: after a confirmed handleClearData and the page load that follows its
\* reload, the store and the state in memory hold exactly the two default
\* categories, no task and no note, whatever was there before.
C18_ResetLeavesDefaults ==
    [][(/\ lastOp'.op = "initData"
        /\ lastOp.op = "handleClearData"
        /\ lastOp.id = "cleared"
        /\ initData("none"))
          => /\ categories' = DEFAULT_CATEGORIES
             /\ tasks' = << >>
             /\ quickNotes' = << >>
             /\ store' = DefaultStore
             /\ Len(DBgetAll(store', "categories")) = 2]_vars

\* the page has loaded after a reset that erased tasks and notes
C18_Witness ==
    /\ lastOp.op = "initData"
    /\ lastOp.id = "none"
    /\ lastOp.n > 2
    /\ phase = "ready"
    /\ categories = DEFAULT_CATEGORIES
    /\ store = DefaultStore

\* C19: when a card is dropped on another card of its lane, the lane as
\* displayed afterwards is the array move of the lane as displayed before:
\* the dropped card takes the position the other had and the other displayed
\* cards keep their order, hidden tasks in the lane or not.
C19_DisplayedLaneIsArrayMove ==
    [][\A over \in Ids(tasks) :
          LET IsActive(t) == t.id = activeId
              IsOver(t) == t.id = over
              lane == DragTargetLane(over)
              before == getTasksByBlock(tasks, lane, now, tz)
              after == getTasksByBlock(tasks', lane, now', tz')
          IN  (/\ lastOp'.op = "handleDragEnd"
               /\ handleDragEnd(over)
               /\ Has(before, IsActive)
               /\ Has(before, IsOver))
              => after = arrayMove(before, FindIndex(before, IsActive),
                                   FindIndex(before, IsOver))]_vars

\* the fields of a Task (types.ts)
TaskFieldNames ==
    {"id", "title", "categoryId", "timeBlock", "status", "completedAt",
     "createdAt"}

\* C20: a drop within a lane issues no persistence request: the stored
\* tasks are the same before and after it, and no task in memory gets an
\* order field or any other change.
C20_ReorderNotPersisted ==
    [][\A over \in OverTargets :
          (lastOp'.op = "handleDragEnd" /\ handleDragEnd(over))
          => /\ inflight' = inflight
             /\ store' = store
             /\ SameRecords(tasks, tasks')
             /\ \A i \in 1..Len(tasks') :
                   DOMAIN tasks'[i] = TaskFieldNames]_vars

\* a drop has put a task of a lane before an older one, and the store holds
\* the records it held, with no request in flight
C20_Witness ==
    /\ lastOp.op = "handleDragEnd"
    /\ lastOp.n = 1
    /\ inflight = << >>
    /\ DOMAIN store.tasks = Ids(tasks)
    /\ \A i \in 1..Len(tasks) : store.tasks[tasks[i].id] = tasks[i]
    /\ \E i, j \in 1..Len(tasks) :
          /\ i < j
          /\ tasks[i].timeBlock = tasks[j].timeBlock
          /\ tasks[i].createdAt > tasks[j].createdAt

\* the positions of the tasks shown on the board, and of the completed ones
\* among them
ShownAt == {i \in 1..Len(tasks) : ~shouldHideTask(tasks[i], now, tz)}
ShownCompletedAt == {i \in ShownAt : tasks[i].status = "completed"}

\* C21: calculateProgress is 0 when no task is shown and otherwise 100 times
\* the number of shown completed tasks over the number of shown tasks; it
\* lies between 0 and 100, and hidden tasks count on neither side.
C21_ProgressOfShownTasks ==
    LET p == calculateProgress(tasks, now, tz)
    IN  /\ ShownAt = {} => p = Fraction(0, 1)
        /\ ShownAt # {}
              => p.num * Cardinality(ShownAt)
                     = 100 * Cardinality(ShownCompletedAt) * p.den
        /\ p.den > 0
        /\ 0 <= p.num
        /\ p.num <= 100 * p.den

\* one task of four is hidden, one of the three shown is completed
C21_Witness ==
    /\ Len(tasks) = 4
    /\ Cardinality(ShownAt) = 3
    /\ Cardinality(ShownCompletedAt) = 1
    /\ calculateProgress(tasks, now, tz) = [num |-> 100, den |-> 3]

-----------------------------------------------------------------------------
(* Editing: tasks are added, completed, edited and deleted *)

NextEdit ==
    \/ Tick
    \/ DbComplete
    \/ PageLoad
    \/ AddTaskFirstCategory
    \/ ToggleTask
    \/ EditTask

SpecEdit == InitData /\ [][NextEdit]_vars

\* C22: saving an edit changes the title and the categoryId of the edited
\* task and nothing else: its timeBlock, id, status, completedAt and
\* createdAt stay, every other task and the order of the list stay, and an
\* edit of an id that is not in the list changes nothing.
C22_EditChangesTitleAndCategory ==
    [][\A i \in 1..Len(Shown) : \A title \in Titles :
       \A c \in Ids(categories) \cup {Shown[i].categoryId} :
          (/\ lastOp'.op = "handleUpdateTask"
           /\ handleUpdateTask(Shown[i].id, title, c, Shown[i].timeBlock))
          => /\ Len(tasks') = Len(tasks)
             /\ \A j \in 1..Len(tasks) :
                   tasks'[j] = IF tasks[j].id = Shown[i].id
                               THEN [tasks[j] EXCEPT !.title = title,
                                                     !.categoryId = c]
                               ELSE tasks[j]
             /\ UpdateTasks(tasks, "absent", title, c, Shown[i].timeBlock,
                            now) = tasks
             /\ PutsFor(tasks, "absent") = << >>]_vars

\* a completed task, the older of two, has got a new title and category
C22_Witness ==
    /\ lastOp.op = "handleUpdateTask"
    /\ Len(tasks) = 2
    /\ tasks[1].title = "b"
    /\ tasks[1].categoryId = "cat2"
    /\ tasks[1].status = "completed"
    /\ tasks[1].timeBlock = "evening"
    /\ tasks[2].title = "a"
    /\ tasks[2].categoryId = "cat1"

\* C23: after any adds, edits, toggles, deletes, drags, category and note
\* changes and imports, none of whose requests failed, once no request is in
\* flight each stored collection holds the records of the list in memory,
\* and no other.
C23_StoreEqualsMemory ==
    (phase = "ready" /\ inflight = << >> /\ faults = 0)
    => \A coll \in Collections :
          Stored(store, coll)
              = Range(InMemory(categories, tasks, quickNotes, coll))

\* C24: when a request of handleImportData fails the import has no effect:
\* the lists in memory are as before, and the store holds exactly what it
\* held when the import started (the requests then in flight completed).
C24_FailedImportHasNoEffect ==
    [][(/\ lastOp'.op = "handleFileSelect"
        /\ lastOp'.id = "importFailed")
          => /\ UNCHANGED <<categories, tasks, quickNotes>>
             /\ Landed(store', inflight') = Landed(store, inflight)]_vars

\* C25: the data manager shows the import as succeeded only when
\* handleImportData replaced the data; when one of its requests failed it
\* shows an import error and no success.
C25_SuccessOnlyWhenImported ==
    /\ importSuccess => lastOp.id # "importFailed"
    /\ (lastOp.op = "handleFileSelect" /\ lastOp.id = "importFailed")
          => importError # << >>

-----------------------------------------------------------------------------
(* Drags that end outside every lane: tasks are added to the morning lane,
   dragged over lanes and cards, and released over no drop target *)

\* the card is released where nothing is under it: over is null
DragEndOutside == handleDragEnd(Null)

NextDragOutside ==
    \/ Tick
    \/ DbComplete
    \/ PageLoad
    \/ AddTaskDefaults
    \/ DragStart
    \/ DragOver
    \/ DragEndOutside

SpecDragOutside == InitData /\ [][NextDragOutside]_vars

\* C26: when a drag ends without a drop target the dragged task has, in
\* memory and in the store, the timeBlock it had when the drag started,
\* whatever it was dragged over in between.  Here every task starts in the
\* morning lane and every drag ends without a drop target, so between drags
\* every task is in the morning lane.
C26_DragOutsideKeepsLane ==
    (phase = "ready" /\ activeId = Null)
    => /\ \A i \in 1..Len(tasks) : tasks[i].timeBlock = "morning"
       /\ \A k \in DOMAIN Landed(store, inflight).tasks :
             Landed(store, inflight).tasks[k].timeBlock = "morning"

-----------------------------------------------------------------------------
(* The add-task dialog (TaskModal): its form and its manage view *)

\* what the user can have typed into the title field
TaskTitles == {"a", " "}

\* String.prototype.trim on these
Trim(str) == IF str = " " THEN "" ELSE str

\* the + button: TaskModal is mounted, useState(categories[0]?.id || '')
OpenTaskModal ==
    /\ Idle
    /\ Settled
    /\ selectedCatId = Null
    /\ selectedCatId' = IF Len(categories) > 0 THEN categories[1].id ELSE ""
    /\ UNCHANGED <<now, tz, phase, categories, tasks, quickNotes, activeId,
                   store, inflight, faults, importError, importSuccess,
                   renderedAt, lastOp, pureVars>>

\* a button of the category grid: setSelectedCatId(cat.id)
setSelectedCatId(id) ==
    /\ selectedCatId # Null
    /\ id \in Ids(categories)
    /\ selectedCatId' = id
    /\ UNCHANGED <<now, tz, phase, categories, tasks, quickNotes, activeId,
                   store, inflight, faults, importError, importSuccess,
                   renderedAt, lastOp, pureVars>>

SelectCategory == \E id \in Ids(categories) : setSelectedCatId(id)

\* handleSubmitTask: if (taskTitle.trim() && selectedCatId) onAddTask(...)
handleSubmitTask(taskTitle, selectedTimeBlock) ==
    /\ selectedCatId # Null
    /\ Trim(taskTitle) # ""
    /\ selectedCatId # ""
    /\ handleAddTask(taskTitle, selectedCatId, selectedTimeBlock)

SubmitTask ==
    /\ Settled
    /\ ClockAdvanced(tasks)
    /\ \E taskTitle \in TaskTitles : handleSubmitTask(taskTitle, "morning")

\* handleDelete of the manage view; its button is disabled while
\* categories.length <= 1
DeleteCategoryInDialog ==
    /\ Settled
    /\ selectedCatId # Null
    /\ ~(Len(categories) <= 1)
    /\ \E i \in 1..Len(categories) : handleDeleteCategory(categories[i].id)

\* onClose
CloseTaskModal ==
    /\ selectedCatId # Null
    /\ selectedCatId' = Null
    /\ UNCHANGED <<now, tz, phase, categories, tasks, quickNotes, activeId,
                   store, inflight, faults, importError, importSuccess,
                   renderedAt, lastOp, pureVars>>

NextTaskModal ==
    \/ Tick
    \/ DbComplete
    \/ PageLoad
    \/ OpenTaskModal
    \/ SelectCategory
    \/ SubmitTask
    \/ DeleteCategoryInDialog
    \/ CloseTaskModal

SpecTaskModal == InitData /\ [][NextTaskModal]_vars

\* C27: a task created through the add-task form has a title that is not
\* blank and a categoryId that is the id of a category existing when it is
\* created, also when categories were deleted in the dialog before.
C27_NewTaskHasTitleAndCategory ==
    [][(lastOp'.op = "handleAddTask" /\ Len(tasks') = Len(tasks) + 1)
          => LET t == tasks'[Len(tasks')]
             IN  /\ Trim(t.title) # ""
                 /\ t.categoryId \in Ids(categories)]_vars

-----------------------------------------------------------------------------
(* Over midnight: tasks are added, completed, renamed, dragged and deleted
   while the clock passes the start of the next day *)

NextHidden ==
    \/ Tick
    \/ DbComplete
    \/ PageLoad
    \/ AddTaskDefaults
    \/ ToggleTask
    \/ RenameTask
    \/ DeleteTask
    \/ DragStart
    \/ DragOver
    \/ DragEnd

SpecHidden == InitData /\ [][NextHidden]_vars

\* C28: a completed task that is hidden from the board stays hidden, and
\* its record stays as it is in memory and in the store, whatever is toggled,
\* edited, dragged or deleted on the board; it stays listed in the history
\* view.
C28_HiddenStaysHidden ==
    [][(phase = "ready" /\ phase' = "ready")
          => \A i \in 1..Len(tasks) :
                shouldHideTask(tasks[i], renderedAt, tz)
                => LET t == tasks[i]
                       before == Landed(store, inflight).tasks
                       after == Landed(store', inflight').tasks
                   IN  /\ Count(tasks', t) = 1
                       /\ shouldHideTask(t, renderedAt', tz')
                       /\ t \notin Range(Shown')
                       /\ t \in Range(completedTasks(tasks', "all"))
                       /\ t.id \in DOMAIN before
                             => /\ t.id \in DOMAIN after
                                /\ after[t.id] = before[t.id]]_vars

\* C29: once the page has loaded without failure the list of categories in
\* memory is never empty: initData seeds the default categories when none is
\* stored, the last category cannot be deleted, and no accepted import
\* leaves the list empty.
C29_CategoriesNeverEmpty ==
    [][/\ (lastOp'.op = "initData" /\ lastOp'.id = "none")
            => categories' # << >>
       /\ (phase = "ready" /\ phase' = "ready" /\ categories # << >>)
            => categories' # << >>]_vars

-----------------------------------------------------------------------------
(* Stores of an older version: tasks written before createdAt existed *)

LegacyIds == {"imp1", "imp2", "old1"}

\* a stored task, with createdAt or (as the older version wrote it) without
LegacyTask(id, created, completed) ==
    [id |-> id, title |-> "a", categoryId |-> "cat1", timeBlock |-> "morning",
     status |-> IF completed THEN "completed" ELSE "active",
     completedAt |-> IF completed THEN MinutesPerDay + 60 ELSE Undefined,
     createdAt |-> IF created THEN MinutesPerDay ELSE Undefined]

LegacyStores ==
    {[EmptyStore EXCEPT
         !.categories = StorePutAll(<< >>, DEFAULT_CATEGORIES),
         !.tasks = [id \in ids |-> LegacyTask(id, created[id], completed[id])]] :
       ids \in SUBSET LegacyIds,
       created \in [LegacyIds -> BOOLEAN],
       completed \in [LegacyIds -> BOOLEAN]}

\* the page is opened on a store the app has written before
InitLegacy ==
    /\ now = StartTime
    /\ tz = -480
    /\ phase = "loading"
    /\ categories = << >>
    /\ tasks = << >>
    /\ quickNotes = << >>
    /\ activeId = Null
    /\ store \in LegacyStores
    /\ inflight = << >>
    /\ faults = 0
    /\ importError = << >>
    /\ importSuccess = FALSE
    /\ selectedCatId = Null
    /\ renderedAt = StartTime
    /\ lastOp = Op("none", Null, 0, Null)
    /\ vData = FileEmpty
    /\ vResult = NoValidation

NextLegacy ==
    \/ Tick
    \/ PageLoad
    \/ BrowserReload

SpecLegacy == InitLegacy /\ [][NextLegacy]_vars

\* C30: after the page has loaded, every task in memory and in the store
\* has a createdAt: a stored task that had one is loaded as it is, one that
\* had none gets its completedAt, or the load time when it has none either,
\* and the store is left as it is unless a task was migrated.
C30_LoadedTasksHaveCreatedAt ==
    [][(lastOp'.op = "initData" /\ initData("none"))
          => LET old == DBgetAll(store, "tasks")
             IN  /\ Len(tasks') = Len(old)
                 /\ \A i \in 1..Len(old) :
                       /\ Truthy(tasks'[i].createdAt)
                       /\ tasks'[i] =
                            IF Truthy(old[i].createdAt) THEN old[i]
                            ELSE [old[i] EXCEPT !.createdAt =
                                     IF Truthy(old[i].completedAt)
                                     THEN old[i].completedAt ELSE now]
                 /\ Stored(store', "tasks") = Range(tasks')
                 /\ (\A i \in 1..Len(old) : Truthy(old[i].createdAt))
                       => store' = store]_vars

\* the page has loaded three tasks: one kept its createdAt, one got its
\* completedAt and one the load time
C30_Witness ==
    /\ lastOp.op = "initData"
    /\ lastOp.id = "none"
    /\ phase = "ready"
    /\ Len(tasks) = 3
    /\ \E i, j, k \in 1..3 :
          /\ tasks[i].createdAt = MinutesPerDay
          /\ tasks[j].createdAt = tasks[j].completedAt
          /\ tasks[k].createdAt = now
          /\ tasks[k].completedAt = Undefined
    /\ Stored(store, "tasks") = Range(tasks)

====
